---- MODULE Spec2Model ----
(***************************************************************************)
(* Split-Ease: the settlement computation of the Summary component          *)
(* (Summary.settlements, a useMemo over users and expenses), the            *)
(* local-storage App with its ExpenseForm, which hold the users and the     *)
(* expenses the computation is given, and the backend-synced App with its   *)
(* requests in flight.                                                      *)
(*                                                                         *)
(* Money.  The code computes with JavaScript numbers.  The model keeps      *)
(* every amount as an exact rational in units of 1/Den of a cent: an        *)
(* expense amount is a whole number of cents, and the only division of the  *)
(* code, amount / participants.length, is exact in these units because Den  *)
(* is a multiple of every participant count the model draws.  The literal   *)
(* 0.01 of the code is Den units.  Floating-point drift (of the order of    *)
(* 1e-15) is not modelled.                                                  *)
(***************************************************************************)
EXTENDS Integers, Sequences, FiniteSets, TLC

VARIABLES users, expenses, pc, k, balances, debtors, creditors, i, j,
          iterations, newSettlements, settlements, calls, prev, emittedIds, other,
          form, now, alert,
          token, groups, groupId, isSyncing, hash, requests

\* emittedIds is a history variable: for each record of newSettlements, the
\* identifiers of the debtor and the creditor it was built from (the record
\* itself carries display names only).
\* iterations is a history variable: the passes of the while loop so far.
\* other holds a second invocation that runs at the same time: its input, its
\* position and its locals, as one record.
\* form, now and alert belong to the local-storage App and its ExpenseForm
\* (users and expenses are that App's state, handed to Summary as props):
\* form is the state of the mounted ExpenseForm, now counts the identifiers
\* Date.now() has named, alert is the text of the last alert shown.
localVars == <<form, now, alert>>

\* The state of the backend-synced App: its useState cells, the URL hash and
\* the requests that are in flight.
backendVars == <<token, groups, groupId, isSyncing, hash, requests>>

vars == <<users, expenses, pc, k, balances, debtors, creditors, i, j,
          iterations, newSettlements, settlements, calls, prev, emittedIds, other,
          localVars, backendVars>>

(***************************************************************************)
(* Bounds of the model.                                                    *)
(***************************************************************************)
MaxExpenses == 2

\* Units per cent: a multiple of every participant count 1..3.
Den == 2 * 3

Cent == Den

\* The identifiers an expense may name, in the order users are created.  A
\* users list is a prefix of AllIds, so an identifier beyond the prefix is
\* unknown to that list.
AllIds == <<"a", "b", "c">>

IDs == {AllIds[n] : n \in 1..Len(AllIds)}

\* Display names.  The add-user form refuses a name already in the group, but
\* an imported group (App, import of shared data) is stored as it comes, so
\* the third user is drawn both with a name of its own and as a second "Ana".
NamesOf(id) ==
    CASE id = "a" -> {"Ana"} [] id = "b" -> {"Bo"} [] OTHER -> {"Cy", "Ana"}

\* Amounts in cents: a negative amount, 2 cents, 100.00.
AmountsInCents == {0 - 10000, 2, 10000}

Amounts == {c * Den : c \in AmountsInCents}

\* Participant lists: every subset of IDs, listed in identifier order.
RECURSIVE SubSeqOf(_, _)
SubSeqOf(s, S) ==
    IF s = <<>> THEN <<>>
    ELSE IF Head(s) \in S THEN <<Head(s)>> \o SubSeqOf(Tail(s), S)
         ELSE SubSeqOf(Tail(s), S)

ParticipantLists == {SubSeqOf(AllIds, S) : S \in SUBSET IDs}

Expenses == [amount : Amounts, paidById : IDs, participantIds : ParticipantLists]

ExpenseLists == UNION {[1..n -> Expenses] : n \in 0..MaxExpenses}

UserLists ==
    UNION {{us \in [1..m -> [id : IDs, name : {"Ana", "Bo", "Cy"}]] :
              \A n \in 1..m : us[n].id = AllIds[n] /\ us[n].name \in NamesOf(AllIds[n])}
           : m \in 0..Len(AllIds)}

(***************************************************************************)
(* The balances Map: a JavaScript Map iterates in insertion order, so it is *)
(* a sequence of entries [id, balance].                                     *)
(***************************************************************************)
MapHas(m, id) == \E n \in 1..Len(m) : m[n].id = id

\* A read that forgets the stored balance, so that a later expense overwrites
\* what the earlier ones accrued.
MapGetForgets(m, id) == 0

\* balances.get(id) || 0
MapGetOr0(m, id) ==
    IF MapHas(m, id) THEN m[CHOOSE n \in 1..Len(m) : m[n].id = id].balance ELSE 0

\* balances.set(id, v): an existing key keeps its position, a new key is appended.
MapSet(m, id, v) ==
    IF MapHas(m, id)
    THEN [n \in 1..Len(m) |-> IF m[n].id = id THEN [id |-> id, balance |-> v] ELSE m[n]]
    ELSE Append(m, [id |-> id, balance |-> v])

\* users.forEach(user => balances.set(user.id, 0))
RECURSIVE InitBalances(_, _)
InitBalances(m, us) ==
    IF us = <<>> THEN m ELSE InitBalances(MapSet(m, Head(us).id, 0), Tail(us))

\* A share that is the whole amount: the division left out.
ShareUndivided(amount, participants) == amount

\* const share = amount / participants.length; with no participant the
\* quotient (Infinity or NaN) is never read, the model writes 0 for it.
Share(amount, participants) ==
    IF Len(participants) = 0 THEN 0 ELSE amount \div Len(participants)

\* participants.forEach(p => balances.set(p, (balances.get(p) || 0) - share))
RECURSIVE DebitParticipants(_, _, _)
DebitParticipants(m, participants, share) ==
    IF participants = <<>> THEN m
    ELSE DebitParticipants(MapSet(m, Head(participants), MapGetOr0(m, Head(participants)) - share),
                           Tail(participants), share)

\* The body of expenses.forEach for one expense.
AccrueExpense(m, expense) ==
    LET credited == MapSet(m, expense.paidById, MapGetOr0(m, expense.paidById) + expense.amount)
    IN  DebitParticipants(credited, expense.participantIds,
                          Share(expense.amount, expense.participantIds))

\* A tolerance of half a cent.
EpsHalfCent == Cent \div 2

\* The 0.01 literal of the partition, the emission test and the pointer tests.
Eps == Cent

RECURSIVE FilterDebtors(_)
FilterDebtors(m) ==
    IF m = <<>> THEN <<>>
    ELSE IF Head(m).balance < 0 - Eps
         THEN <<[id |-> Head(m).id, balance |-> 0 - Head(m).balance]>> \o FilterDebtors(Tail(m))
         ELSE FilterDebtors(Tail(m))

RECURSIVE FilterCreditors(_)
FilterCreditors(m) ==
    IF m = <<>> THEN <<>>
    ELSE IF Head(m).balance > Eps
         THEN <<[id |-> Head(m).id, balance |-> Head(m).balance]>> \o FilterCreditors(Tail(m))
         ELSE FilterCreditors(Tail(m))

(***************************************************************************)
(* Array.prototype.sort with the comparator (a, b) => b.balance - a.balance *)
(* is a stable sort, descending by balance: entries of equal balance keep   *)
(* their order.                                                             *)
(***************************************************************************)
RECURSIVE InsertDesc(_, _)
InsertDesc(sorted, x) ==
    IF sorted = <<>> THEN <<x>>
    ELSE IF Head(sorted).balance >= x.balance
         THEN <<Head(sorted)>> \o InsertDesc(Tail(sorted), x)
         ELSE <<x>> \o sorted

RECURSIVE StableSortDesc(_)
StableSortDesc(list) ==
    IF list = <<>> THEN <<>>
    ELSE InsertDesc(StableSortDesc(SubSeq(list, 1, Len(list) - 1)), list[Len(list)])

Perms(list) ==
    {p \in [1..Len(list) -> 1..Len(list)] : \A x, y \in 1..Len(list) : p[x] = p[y] => x = y}

Permuted(list, p) == [n \in 1..Len(list) |-> list[p[n]]]

IsDesc(list) == \A n \in 1..(Len(list) - 1) : list[n].balance >= list[n + 1].balance

\* Any descending arrangement: what a sort that is not stable may return.
AnySortDesc(list) == {Permuted(list, p) : p \in {q \in Perms(list) : IsDesc(Permuted(list, q))}}

\* No sort at all: the list stays in the order of the map.
SortOmitted(list) == {list}

\* The results the sort of the code can produce.
SortResults(list) == {StableSortDesc(list)}

\* The larger of the two where the code takes the smaller.
Max(x, y) == IF x >= y THEN x ELSE y

\* Half of the smaller: a pass that settles part of what it could.
HalfOfSmaller(x, y) == (IF x <= y THEN x ELSE y) \div 2

\* A lookup that falls back on the identifier itself.
UserNameOrId(us, id) ==
    IF \E n \in 1..Len(us) : us[n].id = id
    THEN us[CHOOSE n \in 1..Len(us) : us[n].id = id /\ \A l \in 1..(n - 1) : us[l].id # id].name
    ELSE id

\* users.find(u => u.id === id)?.name || 'Unknown'
UserName(us, id) ==
    IF \E n \in 1..Len(us) : us[n].id = id
    THEN us[CHOOSE n \in 1..Len(us) : us[n].id = id /\ \A l \in 1..(n - 1) : us[l].id # id].name
    ELSE "Unknown"

Min(x, y) == IF x <= y THEN x ELSE y

\* A threshold that lets 0.01 itself through.
EmitsFromCent(amountToSettle) == amountToSettle >= Eps

\* amountToSettle > 0.01
Emits(amountToSettle) == amountToSettle > Eps

\* The value stored in the amount field of an emitted record.
EmittedAmount(amountToSettle) == amountToSettle

\* amount.toFixed(2): the amount to the nearest cent, for an amount >= 0.
ToFixed2(amount) == ((2 * amount + Cent) \div (2 * Cent)) * Cent

\* A pointer test that waits for a balance below zero.
IsThroughBelowZero(balance) == balance < 0

\* Lines 67 and 70: the test that moves a pointer on, balance < 0.01.
IsThrough(balance) == balance < Eps

\* A guard that lets a single user through.
GuardNoUserOnly(us, es) == Len(us) < 1 \/ Len(es) = 0

\* users.length < 2 || expenses.length === 0
GuardReturnsEmpty(us, es) == Len(us) < 2 \/ Len(es) = 0

(***************************************************************************)
(* An invocation as one record: the state a call starts in, and the steps   *)
(* it can take from a state.  The steps are those of the actions below.     *)
(***************************************************************************)
StartOf(us, es) ==
    [users |-> us, expenses |-> es, pc |-> "call", k |-> 0, balances |-> <<>>,
     debtors |-> <<>>, creditors |-> <<>>, i |-> 0, j |-> 0,
     newSettlements |-> <<>>, settlements |-> <<>>]

\* No second invocation.
NoOther == [StartOf(<<>>, <<>>) EXCEPT !.pc = "done"]

MatchOf(r) ==
    LET debtor == r.debtors[r.i + 1]
        creditor == r.creditors[r.j + 1]
        amountToSettle == Min(debtor.balance, creditor.balance)
        debtorLeft == debtor.balance - amountToSettle
        creditorLeft == creditor.balance - amountToSettle
    IN  [r EXCEPT !.newSettlements =
                      IF Emits(amountToSettle)
                      THEN Append(r.newSettlements,
                                  [from |-> UserName(r.users, debtor.id),
                                   to |-> UserName(r.users, creditor.id),
                                   amount |-> EmittedAmount(amountToSettle)])
                      ELSE r.newSettlements,
                  !.debtors[r.i + 1].balance = debtorLeft,
                  !.creditors[r.j + 1].balance = creditorLeft,
                  !.i = IF IsThrough(debtorLeft) THEN r.i + 1 ELSE r.i,
                  !.j = IF IsThrough(creditorLeft) THEN r.j + 1 ELSE r.j]

StepsOf(r) ==
    CASE r.pc = "call" ->
           IF GuardReturnsEmpty(r.users, r.expenses)
           THEN {[r EXCEPT !.settlements = <<>>, !.pc = "done"]}
           ELSE {[r EXCEPT !.balances = InitBalances(<<>>, r.users), !.k = 0, !.pc = "accrue"]}
      [] r.pc = "accrue" /\ r.k < Len(r.expenses) ->
           {[r EXCEPT !.balances = AccrueExpense(r.balances, r.expenses[r.k + 1]),
                      !.k = r.k + 1]}
      [] r.pc = "accrue" /\ r.k = Len(r.expenses) ->
           {[r EXCEPT !.debtors = FilterDebtors(r.balances),
                      !.creditors = FilterCreditors(r.balances),
                      !.pc = "sort"]}
      [] r.pc = "sort" ->
           {[r EXCEPT !.debtors = d, !.creditors = c, !.newSettlements = <<>>,
                      !.i = 0, !.j = 0, !.pc = "match"]
              : d \in SortResults(r.debtors), c \in SortResults(r.creditors)}
      [] r.pc = "match" /\ r.i < Len(r.debtors) /\ r.j < Len(r.creditors) ->
           {MatchOf(r)}
      [] r.pc = "match" /\ ~(r.i < Len(r.debtors) /\ r.j < Len(r.creditors)) ->
           {[r EXCEPT !.settlements = r.newSettlements, !.pc = "done"]}
      [] OTHER -> {}

(***************************************************************************)
(* The state around the computation: the ExpenseForm of the local-storage   *)
(* App and the cells of the backend-synced App, as they are before anything *)
(* has happened.                                                            *)
(***************************************************************************)
\* ExpenseForm, useState initial values (description, amount, paidById,
\* participantIds, receiptImage, formError).  receiptImage is kept as "is
\* there an image"; scanning lists, for each processImageWithAI call that has
\* not finished, the user identifiers its closure holds.
InitialForm ==
    [description |-> "", amount |-> "", paidById |-> "", participantIds |-> <<>>,
     receiptImage |-> FALSE, formError |-> "", scanning |-> <<>>]

LocalAtRest ==
    /\ form = InitialForm
    /\ now = 0
    /\ alert = ""

\* null of the backend-synced App's cells and of the hash without a group.
Null == "null"

\* App, useState initial values before a token is stored; no request running.
BackendAtRest ==
    /\ token = Null
    /\ groups = <<>>
    /\ groupId = Null
    /\ isSyncing = FALSE
    /\ hash = Null
    /\ requests = {}

(***************************************************************************)
(* The computation as a state machine.                                      *)
(***************************************************************************)
Init ==
    /\ users \in UserLists
    /\ expenses \in ExpenseLists
    /\ pc = "call"
    /\ k = 0
    /\ balances = <<>>
    /\ debtors = <<>>
    /\ creditors = <<>>
    /\ i = 0
    /\ j = 0
    /\ iterations = 0
    /\ newSettlements = <<>>
    /\ settlements = <<>>
    /\ calls = 1
    /\ prev = [users |-> <<>>, expenses |-> <<>>, settlements |-> <<>>]
    /\ emittedIds = <<>>
    /\ other = NoOther
    /\ LocalAtRest
    /\ BackendAtRest

\* Lines 13-18: the guard, then the balances map with 0 for every user.
Guard ==
    /\ pc = "call"
    /\ IF GuardReturnsEmpty(users, expenses)
       THEN /\ settlements' = <<>>
            /\ pc' = "done"
            /\ UNCHANGED <<balances, k>>
       ELSE /\ balances' = InitBalances(<<>>, users)
            /\ k' = 0
            /\ pc' = "accrue"
            /\ UNCHANGED settlements
    /\ UNCHANGED <<users, expenses, debtors, creditors, i, j, iterations, newSettlements, calls, prev,
                   emittedIds, other, localVars, backendVars>>

\* A loop that consumes the caller's list (expenses.shift()) as it goes.
AccrueConsuming ==
    /\ pc = "accrue"
    /\ expenses # <<>>
    /\ balances' = AccrueExpense(balances, Head(expenses))
    /\ expenses' = Tail(expenses)
    /\ UNCHANGED <<users, pc, k, debtors, creditors, i, j, iterations, newSettlements,
                   settlements, calls, prev, emittedIds, other, localVars, backendVars>>

\* Lines 20-33: one iteration of expenses.forEach.
Accrue ==
    /\ pc = "accrue"
    /\ k < Len(expenses)
    /\ balances' = AccrueExpense(balances, expenses[k + 1])
    /\ k' = k + 1
    /\ UNCHANGED <<users, expenses, pc, debtors, creditors, i, j, iterations, newSettlements,
                   settlements, calls, prev, emittedIds, other, localVars, backendVars>>

\* Lines 35-41: debtors and creditors from the entries of the map.
Partition ==
    /\ pc = "accrue"
    /\ k = Len(expenses)
    /\ debtors' = FilterDebtors(balances)
    /\ creditors' = FilterCreditors(balances)
    /\ pc' = "sort"
    /\ UNCHANGED <<users, expenses, k, balances, i, j, iterations, newSettlements, settlements,
                   calls, prev, emittedIds, other, localVars, backendVars>>

\* Lines 43-49: both sorts, then newSettlements = [], i = 0, j = 0.
Sort ==
    /\ pc = "sort"
    /\ \E d \in SortResults(debtors) : debtors' = d
    /\ \E c \in SortResults(creditors) : creditors' = c
    /\ newSettlements' = <<>>
    /\ emittedIds' = <<>>
    /\ i' = 0
    /\ j' = 0
    /\ iterations' = 0
    /\ pc' = "match"
    /\ UNCHANGED <<users, expenses, k, balances, settlements, calls, prev, other, localVars, backendVars>>

\* Lines 51-73: one iteration of the while loop.
Match ==
    /\ pc = "match"
    /\ i < Len(debtors) /\ j < Len(creditors)
    /\ LET debtor == debtors[i + 1]
           creditor == creditors[j + 1]
           amountToSettle == Min(debtor.balance, creditor.balance)
           debtorLeft == debtor.balance - amountToSettle
           creditorLeft == creditor.balance - amountToSettle
       IN  /\ newSettlements' =
                 IF Emits(amountToSettle)
                 THEN Append(newSettlements,
                             [from |-> UserName(users, debtor.id),
                              to |-> UserName(users, creditor.id),
                              amount |-> EmittedAmount(amountToSettle)])
                 ELSE newSettlements
           /\ emittedIds' =
                 IF Emits(amountToSettle)
                 THEN Append(emittedIds, [debtor |-> debtor.id, creditor |-> creditor.id])
                 ELSE emittedIds
           /\ debtors' = [debtors EXCEPT ![i + 1].balance = debtorLeft]
           /\ creditors' = [creditors EXCEPT ![j + 1].balance = creditorLeft]
           /\ i' = IF IsThrough(debtorLeft) THEN i + 1 ELSE i
           /\ j' = IF IsThrough(creditorLeft) THEN j + 1 ELSE j
    /\ iterations' = iterations + 1
    /\ UNCHANGED <<users, expenses, pc, k, balances, settlements, calls, prev,
                   other, localVars, backendVars>>

\* Line 75: the loop condition fails, return newSettlements.
Return ==
    /\ pc = "match"
    /\ ~(i < Len(debtors) /\ j < Len(creditors))
    /\ settlements' = newSettlements
    /\ pc' = "done"
    /\ UNCHANGED <<users, expenses, k, balances, debtors, creditors, i, j, iterations,
                   newSettlements, calls, prev, emittedIds, other, localVars, backendVars>>

Next == Guard \/ Accrue \/ Partition \/ Sort \/ Match \/ Return

Spec == Init /\ [][Next]_vars

(***************************************************************************)
(* A second evaluation of the memo: the component is rendered again with    *)
(* the same expenses and with the users list in any order (the same order   *)
(* included).  The first call's input and result are kept in prev.          *)
(***************************************************************************)
Recall ==
    /\ pc = "done"
    /\ calls = 1
    /\ \E p \in Perms(users) : users' = Permuted(users, p)
    /\ prev' = [users |-> users, expenses |-> expenses, settlements |-> settlements]
    /\ calls' = 2
    /\ pc' = "call"
    /\ k' = 0
    /\ balances' = <<>>
    /\ debtors' = <<>>
    /\ creditors' = <<>>
    /\ i' = 0
    /\ j' = 0
    /\ iterations' = 0
    /\ newSettlements' = <<>>
    /\ settlements' = <<>>
    /\ emittedIds' = <<>>
    /\ UNCHANGED <<expenses, other, localVars, backendVars>>

\* The two-call specification draws expenses of one amount, 100.00.
Hundred == 10000 * Cent

InitTwice == Init /\ \A n \in 1..Len(expenses) : expenses[n].amount = Hundred

NextTwice == Next \/ Recall

SpecTwice == InitTwice /\ [][NextTwice]_vars

(***************************************************************************)
(* Two invocations at the same time, each on its own snapshot of the        *)
(* input, their steps interleaved in any order.  The first is held in the   *)
(* variables, the second in other.                                          *)
(***************************************************************************)
PairUserLists ==
    {us \in UserLists :
        Len(us) >= 2 /\ \A m, n \in 1..Len(us) : us[m].name = us[n].name => m = n}

PairExpenses ==
    [amount : {Hundred}, paidById : {"a", "c"}, participantIds : {<<"a", "b", "c">>, <<"b">>}]

PairExpenseLists == UNION {[1..n -> PairExpenses] : n \in 0..MaxExpenses}

InitPair ==
    /\ users \in PairUserLists
    /\ expenses \in PairExpenseLists
    /\ pc = "call"
    /\ k = 0
    /\ balances = <<>>
    /\ debtors = <<>>
    /\ creditors = <<>>
    /\ i = 0
    /\ j = 0
    /\ iterations = 0
    /\ newSettlements = <<>>
    /\ settlements = <<>>
    /\ calls = 1
    /\ prev = [users |-> <<>>, expenses |-> <<>>, settlements |-> <<>>]
    /\ emittedIds = <<>>
    /\ \E us \in PairUserLists, es \in PairExpenseLists : other = StartOf(us, es)
    /\ LocalAtRest
    /\ BackendAtRest

\* The second invocation working on the balances map of the first: one map
\* at module level instead of one per call.
OtherStepSharedMap ==
    /\ \E r \in StepsOf([other EXCEPT !.balances = balances]) :
          /\ other' = r
          /\ balances' = r.balances
    /\ UNCHANGED <<users, expenses, pc, k, debtors, creditors, i, j, iterations, newSettlements,
                   settlements, calls, prev, emittedIds, localVars, backendVars>>

\* A step of the second invocation: it reads and writes its own locals.
OtherStep ==
    /\ \E r \in StepsOf(other) : other' = r
    /\ UNCHANGED <<users, expenses, pc, k, balances, debtors, creditors, i, j, iterations,
                   newSettlements, settlements, calls, prev, emittedIds, localVars, backendVars>>

NextPair == Next \/ OtherStep

SpecPair == InitPair /\ [][NextPair]_vars

(***************************************************************************)
(* Vocabulary of the properties, defined on the input alone.                *)
(***************************************************************************)
Abs(x) == IF x < 0 THEN 0 - x ELSE x

UserIds(us) == {us[n].id : n \in 1..Len(us)}

Occurrences(id, list) == Cardinality({n \in 1..Len(list) : list[n] = id})

\* Net balance of id: what it paid minus its share of what it takes part in.
RECURSIVE NetOver(_, _)
NetOver(id, es) ==
    IF es = <<>> THEN 0
    ELSE (IF Head(es).paidById = id THEN Head(es).amount ELSE 0)
         - (IF Head(es).participantIds = <<>> THEN 0
            ELSE Occurrences(id, Head(es).participantIds)
                   * (Head(es).amount \div Len(Head(es).participantIds)))
         + NetOver(id, Tail(es))

Net(id) == NetOver(id, expenses)

ValidExpense(us, e) ==
    /\ e.paidById \in UserIds(us)
    /\ \A n \in 1..Len(e.participantIds) : e.participantIds[n] \in UserIds(us)
    /\ Len(e.participantIds) > 0
    /\ e.amount >= 0

ValidInput == Len(users) >= 2 /\ \A n \in 1..Len(expenses) : ValidExpense(users, expenses[n])

InvalidExpenseGiven == \E n \in 1..Len(expenses) : ~ValidExpense(users, expenses[n])

DistinctNames == \A m, n \in 1..Len(users) : users[m].name = users[n].name => m = n

RECURSIVE SumFrom(_, _)
SumFrom(name, list) ==
    IF list = <<>> THEN 0
    ELSE (IF Head(list).from = name THEN Head(list).amount ELSE 0) + SumFrom(name, Tail(list))

RECURSIVE SumTo(_, _)
SumTo(name, list) ==
    IF list = <<>> THEN 0
    ELSE (IF Head(list).to = name THEN Head(list).amount ELSE 0) + SumTo(name, Tail(list))

\* The balance of a user once every returned transfer is paid.
Residual(u) == Net(u.id) + SumFrom(u.name, settlements) - SumTo(u.name, settlements)

RECURSIVE SumPositive(_)
SumPositive(m) ==
    IF m = <<>> THEN 0
    ELSE (IF Head(m).balance > 0 THEN Head(m).balance ELSE 0) + SumPositive(Tail(m))

RECURSIVE SumNegative(_)
SumNegative(m) ==
    IF m = <<>> THEN 0
    ELSE (IF Head(m).balance < 0 THEN 0 - Head(m).balance ELSE 0) + SumNegative(Tail(m))

\* The accrual over all expenses has been done.
AccrualDone ==
    \/ pc = "accrue" /\ k = Len(expenses)
    \/ pc \in {"sort", "match"}
    \/ pc = "done" /\ ~GuardReturnsEmpty(users, expenses)

\* The accrued balance of id, read from the map; 0 for an absent key.
BalanceOf(id) ==
    IF \E n \in 1..Len(balances) : balances[n].id = id
    THEN balances[CHOOSE n \in 1..Len(balances) : balances[n].id = id].balance
    ELSE 0

\* The debt id entered the matching with.
OriginalDebt(id) == 0 - BalanceOf(id)

NonzeroUsers == Cardinality({n \in 1..Len(users) : Net(users[n].id) # 0})

NonzeroHolders == Cardinality({id \in IDs : Net(id) # 0})

(***************************************************************************)
(* One call on a well-formed input: two users or more, every expense with  *)
(* a payer and one participant or more among the users, and an amount       *)
(* that is not negative.                                                    *)
(***************************************************************************)
ValidExpensesOf(us) == {e \in Expenses : ValidExpense(us, e)}

InitValid ==
    /\ users \in {us \in UserLists : Len(us) >= 2}
    /\ expenses \in UNION {[1..n -> ValidExpensesOf(users)] : n \in 0..MaxExpenses}
    /\ pc = "call"
    /\ k = 0
    /\ balances = <<>>
    /\ debtors = <<>>
    /\ creditors = <<>>
    /\ i = 0
    /\ j = 0
    /\ iterations = 0
    /\ newSettlements = <<>>
    /\ settlements = <<>>
    /\ calls = 1
    /\ prev = [users |-> <<>>, expenses |-> <<>>, settlements |-> <<>>]
    /\ emittedIds = <<>>
    /\ other = NoOther
    /\ LocalAtRest
    /\ BackendAtRest

SpecValid == InitValid /\ [][Next]_vars

(***************************************************************************)
(* A second evaluation of the memo with another expenses list: the users    *)
(* are the same and the new list gives every user the net balance the       *)
(* first list gave it (a reordering of the first list, a list with          *)
(* expenses that cancel added or removed, ...).                             *)
(***************************************************************************)
RebillExpenses ==
    [amount : {Hundred}, paidById : {"a", "b"},
     participantIds : {<<"a", "b", "c">>, <<"a">>, <<"b">>}]

RebillExpenseLists == UNION {[1..n -> RebillExpenses] : n \in 0..MaxExpenses}

InitRebill ==
    /\ users \in PairUserLists
    /\ expenses \in RebillExpenseLists
    /\ pc = "call"
    /\ k = 0
    /\ balances = <<>>
    /\ debtors = <<>>
    /\ creditors = <<>>
    /\ i = 0
    /\ j = 0
    /\ iterations = 0
    /\ newSettlements = <<>>
    /\ settlements = <<>>
    /\ calls = 1
    /\ prev = [users |-> <<>>, expenses |-> <<>>, settlements |-> <<>>]
    /\ emittedIds = <<>>
    /\ other = NoOther
    /\ LocalAtRest
    /\ BackendAtRest

Rebill ==
    /\ pc = "done"
    /\ calls = 1
    /\ \E es \in RebillExpenseLists :
          /\ \A n \in 1..Len(users) : NetOver(users[n].id, es) = NetOver(users[n].id, expenses)
          /\ expenses' = es
    /\ prev' = [users |-> users, expenses |-> expenses, settlements |-> settlements]
    /\ calls' = 2
    /\ pc' = "call"
    /\ k' = 0
    /\ balances' = <<>>
    /\ debtors' = <<>>
    /\ creditors' = <<>>
    /\ i' = 0
    /\ j' = 0
    /\ iterations' = 0
    /\ newSettlements' = <<>>
    /\ settlements' = <<>>
    /\ emittedIds' = <<>>
    /\ UNCHANGED <<users, other, localVars, backendVars>>

NextRebill == Next \/ Rebill

SpecRebill == InitRebill /\ [][NextRebill]_vars

(***************************************************************************)
(* Expenses whose participant list may name an identifier more than once:   *)
(* participantIds is a string[], nothing in the type or in the computation  *)
(* keeps its entries distinct.  One call on at most one such expense.       *)
(***************************************************************************)
RepeatingParticipantLists == UNION {[1..n -> IDs] : n \in 1..Len(AllIds)}

RepeatingExpenses ==
    [amount : {Hundred}, paidById : IDs, participantIds : RepeatingParticipantLists]

RepeatingExpenseLists == {<<>>} \cup {<<e>> : e \in RepeatingExpenses}

InitRepeating ==
    /\ users \in UserLists
    /\ expenses \in RepeatingExpenseLists
    /\ pc = "call"
    /\ k = 0
    /\ balances = <<>>
    /\ debtors = <<>>
    /\ creditors = <<>>
    /\ i = 0
    /\ j = 0
    /\ iterations = 0
    /\ newSettlements = <<>>
    /\ settlements = <<>>
    /\ calls = 1
    /\ prev = [users |-> <<>>, expenses |-> <<>>, settlements |-> <<>>]
    /\ emittedIds = <<>>
    /\ other = NoOther
    /\ LocalAtRest
    /\ BackendAtRest

SpecRepeating == InitRepeating /\ [][Next]_vars

\* The list with every repetition of an entry removed, first occurrences kept.
RECURSIVE WithoutRepeats(_)
WithoutRepeats(list) ==
    IF list = <<>> THEN <<>>
    ELSE LET front == WithoutRepeats(SubSeq(list, 1, Len(list) - 1))
             last == list[Len(list)]
         IN  IF \E n \in 1..Len(front) : front[n] = last THEN front ELSE Append(front, last)

Deduplicated(es) ==
    [n \in 1..Len(es) |-> [es[n] EXCEPT !.participantIds = WithoutRepeats(es[n].participantIds)]]

(***************************************************************************)
(* Small amounts: one call on three users and at most three expenses of     *)
(* 0.01 or 0.05, where balances come within a cent of each other.           *)
(***************************************************************************)
FiveCents == 5 * Cent

CentExpenses ==
    [amount : {Cent, FiveCents}, paidById : {"a", "c"},
     participantIds : {<<>>, <<"b">>, <<"a", "c">>}]

CentExpenseLists == UNION {[1..n -> CentExpenses] : n \in 0..Len(AllIds)}

InitCents ==
    /\ users \in {us \in UserLists : Len(us) = Len(AllIds)}
    /\ expenses \in CentExpenseLists
    /\ pc = "call"
    /\ k = 0
    /\ balances = <<>>
    /\ debtors = <<>>
    /\ creditors = <<>>
    /\ i = 0
    /\ j = 0
    /\ iterations = 0
    /\ newSettlements = <<>>
    /\ settlements = <<>>
    /\ calls = 1
    /\ prev = [users |-> <<>>, expenses |-> <<>>, settlements |-> <<>>]
    /\ emittedIds = <<>>
    /\ other = NoOther
    /\ LocalAtRest
    /\ BackendAtRest

SpecCents == InitCents /\ [][Next]_vars

(***************************************************************************)
(* C1.  Settlement completeness: on a valid input, once every returned      *)
(* transfer is paid every user's balance is within 0.01 of zero.            *)
(***************************************************************************)
C1_Completeness ==
    (pc = "done" /\ ValidInput /\ DistinctNames)
        => \A n \in 1..Len(users) : Abs(Residual(users[n])) <= Cent

(***************************************************************************)
(* C2.  Zero-sum: for any input, after the accrual the positive balances    *)
(* and the magnitudes of the negative balances have the same sum, within    *)
(* 0.01.                                                                    *)
(***************************************************************************)
C2_ZeroSum ==
    AccrualDone => Abs(SumPositive(balances) - SumNegative(balances)) <= Cent

\* The same with every expense having a participant: the case C2 rests on.
C2_ZeroSumWithParticipants ==
    (AccrualDone /\ \A n \in 1..Len(expenses) : Len(expenses[n].participantIds) > 0)
        => SumPositive(balances) = SumNegative(balances)

(***************************************************************************)
(* C3.  Transfer bound as claimed: the number of returned transfers is at   *)
(* most (number of users with a nonzero net balance) - 1.                   *)
(***************************************************************************)
C3_TransferBound == pc = "done" => Len(settlements) <= NonzeroUsers - 1

(***************************************************************************)
(* C3, amended.  The number of returned transfers is at most n - 1, and 0   *)
(* when n = 0, n being the number of holders of a balance (users, and any   *)
(* other identifier an expense names) whose net balance is nonzero.         *)
(***************************************************************************)
C3_TransferBoundAmended ==
    pc = "done" =>
        Len(settlements) <= (IF NonzeroHolders = 0 THEN 0 ELSE NonzeroHolders - 1)

C3_Witness == pc = "done" /\ Len(settlements) = 2 /\ NonzeroHolders = 3

(***************************************************************************)
(* C4.  No self-transfer: no emitted record has from equal to to.  Stated   *)
(* on the valid inputs, where no record carries the name 'Unknown'.         *)
(***************************************************************************)
C4_NoSelfTransfer ==
    ValidInput =>
        \A n \in 1..Len(newSettlements) : newSettlements[n].from # newSettlements[n].to

(***************************************************************************)
(* C5.  Invalid input is rejected: with an expense that names an unknown    *)
(* payer or participant, has no participant or a negative amount, the       *)
(* computation never returns a list computed from such an expense.          *)
(***************************************************************************)
C5_InvalidRejected == InvalidExpenseGiven => ~(pc = "done" /\ settlements # <<>>)

(***************************************************************************)
(* C6.  Rounding: every emitted amount is a multiple of 0.01.  Stated on    *)
(* the valid inputs with distinct display names.                            *)
(***************************************************************************)
C6_Rounded ==
    (ValidInput /\ DistinctNames) => \A n \in 1..Len(newSettlements) : newSettlements[n].amount % Cent = 0

C8_FewUsersYieldNone ==
    Len(users) < 2 => /\ pc \in {"call", "done"}
                      /\ newSettlements = <<>>
                      /\ settlements = <<>>

C8_Witness ==
    /\ pc = "done"
    /\ Len(users) = 1
    /\ \E n \in 1..Len(expenses) :
          /\ expenses[n].paidById \notin UserIds(users)
          /\ expenses[n].amount > 0
          /\ expenses[n].participantIds = <<users[1].id>>

(***************************************************************************)
(* C9.  Determinism: a second call on the same users list and the same      *)
(* expenses list returns the list the first call returned.                  *)
(***************************************************************************)
C9_Deterministic ==
    (pc = "done" /\ calls = 2 /\ users = prev.users) => settlements = prev.settlements

C9_Witness ==
    /\ pc = "done"
    /\ calls = 2
    /\ users = prev.users
    /\ Len(settlements) = 2
    /\ settlements[1].amount = settlements[2].amount

(***************************************************************************)
(* C10.  Tie-break by identifier: the returned list is the same for every   *)
(* ordering of the users list.  Stated on the valid inputs with distinct     *)
(* display names.                                                           *)
(***************************************************************************)
C10_UsersOrderIrrelevant ==
    (pc = "done" /\ calls = 2 /\ ValidInput /\ DistinctNames)
        => settlements = prev.settlements

C12_NoSideEffects == [][users' = users /\ expenses' = expenses]_vars

C12_Witness ==
    /\ pc = "done"
    /\ Len(expenses) = MaxExpenses
    /\ Len(settlements) = 2
    /\ i = Len(debtors)
    /\ \E n \in 1..Len(creditors) : creditors[n].balance = 0

\* The lists an invocation on (us, es) can return when it runs alone.
RECURSIVE ResultsFrom(_)
ResultsFrom(r) ==
    IF r.pc = "done" THEN {r.settlements}
    ELSE UNION {ResultsFrom(r2) : r2 \in StepsOf(r)}

ResultsAlone(us, es) == ResultsFrom(StartOf(us, es))

(***************************************************************************)
(* C13.  Concurrent invocation safety: of two computations on their own     *)
(* input snapshots, steps interleaved in any order, each returns a list it  *)
(* returns when run alone.                                                  *)
(***************************************************************************)
C13_InterleavingSafe ==
    /\ pc = "done" => settlements \in ResultsAlone(users, expenses)
    /\ other.pc = "done" => other.settlements \in ResultsAlone(other.users, other.expenses)

C13_Witness ==
    /\ pc = "done"
    /\ other.pc = "done"
    /\ users # other.users
    /\ expenses # other.expenses
    /\ Len(settlements) = 2
    /\ Len(other.settlements) = 1

(***************************************************************************)
(* C14.  Balance accrual: every balance starts at 0, and after the first k  *)
(* expenses the balance of a user is the sum of the full amounts it paid    *)
(* minus the sum of amount / (number of participants) over the expenses it  *)
(* takes part in, a payer listed as participant being debited its share     *)
(* too.  After all expenses this is the net balance.                        *)
(***************************************************************************)
C14_BalanceAccrual ==
    /\ pc = "accrue" =>
          \A n \in 1..Len(users) :
              BalanceOf(users[n].id) = NetOver(users[n].id, SubSeq(expenses, 1, k))
    /\ AccrualDone => \A n \in 1..Len(users) : BalanceOf(users[n].id) = Net(users[n].id)

C14_Witness ==
    /\ pc = "sort"
    /\ Len(expenses) = 2
    /\ \A n \in 1..2 :
          /\ ValidExpense(users, expenses[n])
          /\ expenses[n].paidById = "a"
          /\ expenses[n].amount = Hundred
    /\ expenses[1].participantIds = <<"a", "b", "c">>
    /\ expenses[2].participantIds = <<"b">>
    /\ BalanceOf("a") = 2 * Hundred - Hundred \div 3
    /\ BalanceOf("b") = 0 - (Hundred + Hundred \div 3)

C15_WitnessCancelled ==
    /\ pc = "done"
    /\ calls = 2
    /\ prev.expenses = <<>>
    /\ Len(expenses) = 2
    /\ expenses[1].paidById # expenses[2].paidById
    /\ settlements = <<>>

(***************************************************************************)
(* C16.  Duplicate participants are not meaningful: an expense whose        *)
(* participant list names a user more than once accrues the balances of     *)
(* the same expense with the repetitions removed.                           *)
(***************************************************************************)
C16_RepeatsNotMeaningful ==
    (AccrualDone /\ ValidInput)
        => \A n \in 1..Len(users) :
              BalanceOf(users[n].id) = NetOver(users[n].id, Deduplicated(expenses))

\* The two lists have been built from the map.
Partitioned ==
    \/ pc \in {"sort", "match"}
    \/ pc = "done" /\ ~GuardReturnsEmpty(users, expenses)

DebtorIds == {debtors[n].id : n \in 1..Len(debtors)}

CreditorIds == {creditors[n].id : n \in 1..Len(creditors)}

PayerIds == {emittedIds[n].debtor : n \in 1..Len(emittedIds)}

ReceiverIds == {emittedIds[n].creditor : n \in 1..Len(emittedIds)}

(***************************************************************************)
(* C17.  Partition by epsilon: a holder of a balance of magnitude at most   *)
(* 0.01 is in neither list and is neither payer nor receiver of an emitted  *)
(* transfer; a balance below -0.01 puts its holder among the debtors only,  *)
(* and it is only ever a payer; a balance above 0.01 puts its holder among  *)
(* the creditors only, and it is only ever a receiver.                      *)
(***************************************************************************)
C17_PartitionByEpsilon ==
    Partitioned =>
        \A id \in IDs :
            /\ Abs(BalanceOf(id)) <= Cent
                  => id \notin DebtorIds \cup CreditorIds \cup PayerIds \cup ReceiverIds
            /\ BalanceOf(id) < 0 - Cent
                  => id \in DebtorIds /\ id \notin CreditorIds \cup ReceiverIds
            /\ BalanceOf(id) > Cent
                  => id \in CreditorIds /\ id \notin DebtorIds \cup PayerIds

C17_Witness ==
    /\ pc = "done"
    /\ ValidInput
    /\ Len(emittedIds) = 1
    /\ \E id \in IDs : BalanceOf(id) = Cent
    /\ \E id \in IDs : BalanceOf(id) = 0 - Hundred - Cent

(***************************************************************************)
(* C18.  Pointer advance rule: in a matching step the debtor pointer        *)
(* advances exactly when the remaining balance of the debtor is at most     *)
(* 0.01, and the creditor pointer exactly when the remaining balance of     *)
(* the creditor is at most 0.01 (both, when both reach zero).  Stated on    *)
(* the valid inputs.                                                        *)
(***************************************************************************)
C18_PointerAdvance ==
    [][(ValidInput /\ pc = "match" /\ pc' = "match")
          => /\ i' = (IF debtors'[i + 1].balance <= Cent THEN i + 1 ELSE i)
             /\ j' = (IF creditors'[j + 1].balance <= Cent THEN j + 1 ELSE j)]_vars

\* The smaller of the remaining balances of the current debtor and creditor.
LeastRemaining ==
    IF debtors[i + 1].balance <= creditors[j + 1].balance
    THEN debtors[i + 1].balance
    ELSE creditors[j + 1].balance

(***************************************************************************)
(* C19.  Emission threshold: a matching step whose minimum of the two       *)
(* remaining balances is above 0.01 appends one transfer of exactly that    *)
(* amount, a step whose minimum is at most 0.01 appends nothing; so every   *)
(* emitted amount is strictly greater than 0.01.                            *)
(***************************************************************************)
C19_EmissionThreshold ==
    [][(pc = "match" /\ pc' = "match")
          => /\ IF LeastRemaining > Cent
                THEN /\ Len(newSettlements') = Len(newSettlements) + 1
                     /\ SubSeq(newSettlements', 1, Len(newSettlements)) = newSettlements
                     /\ newSettlements'[Len(newSettlements')].amount = LeastRemaining
                ELSE newSettlements' = newSettlements
             /\ \A n \in 1..Len(newSettlements') : newSettlements'[n].amount > Cent]_vars

\* What the emitted records make the debtor id pay.
RECURSIVE PaidBy(_, _)
PaidBy(id, n) ==
    IF n = 0 THEN 0
    ELSE (IF emittedIds[n].debtor = id THEN newSettlements[n].amount ELSE 0) + PaidBy(id, n - 1)

\* A debtor is through: its records carry all of its debt but 0.01, which a
\* step has settled without a record.
C19_Witness ==
    /\ pc = "match"
    /\ \E n \in 1..Len(debtors) :
          /\ debtors[n].balance = 0
          /\ PaidBy(debtors[n].id, Len(emittedIds)) = OriginalDebt(debtors[n].id) - Cent

\* The sum of the transfers to name, each at two decimals.
RECURSIVE SumToAtTwoDecimals(_, _)
SumToAtTwoDecimals(name, list) ==
    IF list = <<>> THEN 0
    ELSE (IF Head(list).to = name THEN ToFixed2(Head(list).amount) ELSE 0)
         + SumToAtTwoDecimals(name, Tail(list))

HundredAmongThree ==
    /\ Len(users) = 3
    /\ DistinctNames
    /\ expenses = <<[amount |-> Hundred, paidById |-> "a", participantIds |-> <<"a", "b", "c">>]>>

(***************************************************************************)
(* C20.  Residual cent is not lost: with users A, B, C and one expense of   *)
(* 100 paid by A and split among A, B, C, the transfers to A, each taken    *)
(* at two decimals, sum to A's credit of 66.67, and exactly one of them     *)
(* carries the residual cent (33.34 against 33.33).                         *)
(***************************************************************************)
C20_ResidualCentKept ==
    (pc = "done" /\ HundredAmongThree)
        => /\ SumToAtTwoDecimals(UserName(users, "a"), settlements) = ToFixed2(Net("a"))
           /\ Cardinality({n \in 1..Len(settlements) :
                              ToFixed2(settlements[n].amount) = ToFixed2(Hundred \div 3) + Cent}) = 1

(***************************************************************************)
(* The local-storage App (types.ts) with its ExpenseForm (the first         *)
(* component of ExpenseForm.tsx).  users and expenses are the App's state;  *)
(* the Summary computation stays at its call.                               *)
(***************************************************************************)
summaryVars == <<pc, k, balances, debtors, creditors, i, j, iterations, newSettlements,
                 settlements, calls, prev, emittedIds, other>>

SummaryAtRest ==
    /\ pc = "call"
    /\ k = 0
    /\ balances = <<>>
    /\ debtors = <<>>
    /\ creditors = <<>>
    /\ i = 0
    /\ j = 0
    /\ iterations = 0
    /\ newSettlements = <<>>
    /\ settlements = <<>>
    /\ calls = 1
    /\ prev = [users |-> <<>>, expenses |-> <<>>, settlements |-> <<>>]
    /\ emittedIds = <<>>
    /\ other = NoOther

\* App, lines 30-37 with an empty localStorage.
InitLocal ==
    /\ users = <<>>
    /\ expenses = <<>>
    /\ SummaryAtRest
    /\ LocalAtRest
    /\ BackendAtRest

NoDeleteMessage == "No se pueden eliminar usuarios mientras existan gastos."

IncompleteMessage == "Completa todos los campos obligatorios."

\* What the description field may hold.
Descriptions == {"", "Cena"}

\* What the amount field (input type="number") may hold.
AmountTexts == {"", "0", "-100.00", "100.00"}

\* parseFloat on the texts of the amount field: NaN for the empty text, the
\* number otherwise (in the units of the model).
parseFloat(text) ==
    CASE text = "" -> [isNaN |-> TRUE, value |-> 0]
      [] text = "0" -> [isNaN |-> FALSE, value |-> 0]
      [] text = "-100.00" -> [isNaN |-> FALSE, value |-> 0 - Hundred]
      [] text = "100.00" -> [isNaN |-> FALSE, value |-> Hundred]

\* JavaScript !x on a number: true of NaN and of 0.
Not(parsed) == parsed.isNaN \/ parsed.value = 0

IdsOf(us) == [n \in 1..Len(us) |-> us[n].id]

\* What a render leaves of the form: App line 152 mounts ExpenseForm only
\* with two users or more (an unmounted form loses its state, and the calls
\* of a scan that ends later are dropped); the effect of lines 24-28 fills an
\* empty paidById with the first user.
Rendered(f, us) ==
    IF Len(us) < 2 THEN InitialForm
    ELSE IF f.paidById = "" THEN [f EXCEPT !.paidById = us[1].id]
    ELSE f

\* resetFormState, lines 30-45; a scan that is running keeps running.
resetFormState(f, us) ==
    [InitialForm EXCEPT !.paidById = IF Len(us) > 0 THEN us[1].id ELSE f.paidById,
                        !.scanning = f.scanning]

\* The form element (lines 135-149) is shown once there is a receipt image.
FormShown == Len(users) >= 2 /\ form.receiptImage

\* handleAddUser, lines 70-73.  The add-user form hands over a name that is
\* not empty and not in the group; Date.now() names a new identifier.
handleAddUser ==
    /\ now < Len(AllIds)
    /\ \E name \in NamesOf(AllIds[now + 1]) \ {users[n].name : n \in 1..Len(users)} :
          users' = Append(users, [id |-> AllIds[now + 1], name |-> name])
    /\ now' = now + 1
    /\ form' = Rendered(form, users')
    /\ UNCHANGED <<expenses, alert, summaryVars, backendVars>>

\* handleDeleteUser without its guard on the expense list.
handleDeleteUserUnguarded ==
    /\ \E id \in UserIds(users) :
          users' = SelectSeq(users, LAMBDA user : user.id # id)
    /\ form' = Rendered(form, users')
    /\ UNCHANGED <<expenses, now, alert, summaryVars, backendVars>>

\* handleDeleteUser, lines 75-81.
handleDeleteUser ==
    /\ \E id \in UserIds(users) :
          IF Len(expenses) > 0
          THEN /\ alert' = NoDeleteMessage
               /\ UNCHANGED <<users, form>>
          ELSE /\ users' = SelectSeq(users, LAMBDA user : user.id # id)
               /\ form' = Rendered(form, users')
               /\ UNCHANGED alert
    /\ UNCHANGED <<expenses, now, summaryVars, backendVars>>

\* handleFileChange up to reader.onloadend, lines 47-62: the image is set and
\* processImageWithAI starts with the users of this render in its closure.
\* The file input is there while no image is (lines 122-132).
handleFileChange ==
    /\ Len(users) >= 2
    /\ ~form.receiptImage
    /\ form.scanning = <<>>
    /\ form' = [form EXCEPT !.receiptImage = TRUE, !.scanning = <<IdsOf(users)>>]
    /\ UNCHANGED <<users, expenses, now, alert, summaryVars, backendVars>>

\* processImageWithAI after its await, lines 78-96: the fields of a parsed
\* receipt, or nothing on an error; in both cases every user of the closure
\* becomes a participant.
processImageWithAI ==
    /\ form.scanning # <<>>
    /\ \E ok \in BOOLEAN, merchantName \in Descriptions,
          totalAmount \in AmountTexts \ {"0"} :
          form' = [form EXCEPT
                     !.description = IF ok THEN merchantName ELSE @,
                     !.amount = IF ok THEN totalAmount ELSE @,
                     !.participantIds = Head(form.scanning),
                     !.scanning = Tail(@)]
    /\ UNCHANGED <<users, expenses, now, alert, summaryVars, backendVars>>

\* The description and amount inputs, lines 140 and 142.
setField ==
    /\ FormShown
    /\ \E description \in Descriptions, amount \in AmountTexts :
          form' = [form EXCEPT !.description = description, !.amount = amount]
    /\ UNCHANGED <<users, expenses, now, alert, summaryVars, backendVars>>

\* The payer select, lines 143-145: one option per user.
setPaidById ==
    /\ FormShown
    /\ \E n \in 1..Len(users) : form' = [form EXCEPT !.paidById = users[n].id]
    /\ UNCHANGED <<users, expenses, now, alert, summaryVars, backendVars>>

\* The Cancelar button, line 148.
Cancel ==
    /\ FormShown
    /\ form' = resetFormState(form, users)
    /\ UNCHANGED <<users, expenses, now, alert, summaryVars, backendVars>>

\* handleSubmit, lines 99-116, with App.handleAddExpense, lines 83-89, as its
\* onAddExpense: the new expense goes to the front of the list.
handleSubmit ==
    /\ FormShown
    /\ LET parsedAmount == parseFloat(form.amount) IN
         IF form.description = "" \/ Not(parsedAmount) \/ Len(form.participantIds) = 0
         THEN /\ form' = [form EXCEPT !.formError = IncompleteMessage]
              /\ UNCHANGED expenses
         ELSE /\ Len(expenses) < MaxExpenses
              /\ expenses' = <<[amount |-> parsedAmount.value,
                                paidById |-> form.paidById,
                                participantIds |-> form.participantIds]>> \o expenses
              /\ form' = resetFormState(form, users)
    /\ UNCHANGED <<users, now, alert, summaryVars, backendVars>>

\* handleDeleteExpense, lines 91-93: expense identifiers are distinct, so the
\* filter takes out the one expense of the button pressed.
handleDeleteExpense ==
    /\ \E n \in 1..Len(expenses) :
          expenses' = SubSeq(expenses, 1, n - 1) \o SubSeq(expenses, n + 1, Len(expenses))
    /\ UNCHANGED <<users, form, now, alert, summaryVars, backendVars>>

NextLocal ==
    \/ handleAddUser
    \/ handleDeleteUser
    \/ handleFileChange
    \/ processImageWithAI
    \/ setField
    \/ setPaidById
    \/ Cancel
    \/ handleSubmit
    \/ handleDeleteExpense

SpecLocal == InitLocal /\ [][NextLocal]_vars

\* C21: in the local-storage App, whatever users are added and deleted, the
\* form edited, expenses submitted and deleted, the payer and every
\* participant of every stored expense is a user of the current list.
C21_ExpensesNameUsers ==
    \A n \in 1..Len(expenses) :
        /\ expenses[n].paidById \in UserIds(users)
        /\ \A m \in 1..Len(expenses[n].participantIds) :
              expenses[n].participantIds[m] \in UserIds(users)

\* C22: handleSubmit never hands onAddExpense an expense with an empty
\* participant list or with a negative amount (every expense that enters the
\* list comes from it, at the front); a submit that is refused sets the form
\* error and leaves the expense list as it was.
C22_SubmitRefusesBadExpenses ==
    [][/\ Len(expenses') > Len(expenses)
          => /\ Len(Head(expenses').participantIds) > 0
             /\ Head(expenses').amount >= 0
       /\ (form'.formError = IncompleteMessage /\ form.formError # IncompleteMessage)
          => expenses' = expenses]_vars

(***************************************************************************)
(* The small-amount specification with the scheduling of the code: the      *)
(* memo callback is one synchronous run, so a step that can be taken is     *)
(* taken.                                                                   *)
(***************************************************************************)
FairCents == SpecCents /\ WF_vars(Next)

\* The bound the claim gives for the passes of the loop.
IterationBound == Len(debtors) + Len(creditors) - 1

\* C23, as stated: the matching loop terminates, every pass moves at least
\* one of the two pointers forward, and the loop makes at most (number of
\* debtors + number of creditors - 1) passes, for every pair of lists.
C23_MatchingTerminates ==
    /\ <>(pc = "done")
    /\ [][(pc = "match" /\ pc' = "match") => i' + j' > i + j]_vars
    /\ [](pc = "match" => iterations <= IterationBound)

\* C23, amended: the bound on the passes is for lists that are not both
\* empty; two empty lists (every balance within 0.01 of zero) give no pass,
\* where the formula of the bound gives -1.
C23_MatchingTerminatesAmended ==
    /\ <>(pc = "done")
    /\ [][(pc = "match" /\ pc' = "match") => i' + j' > i + j]_vars
    /\ [](pc = "match" =>
            iterations <= IF debtors = <<>> /\ creditors = <<>> THEN 0
                          ELSE IterationBound)

\* The loop is through both lists after as many passes as the bound allows,
\* the last of them moving both pointers.
C23_Witness ==
    /\ pc = "match"
    /\ Len(debtors) + Len(creditors) = Len(AllIds)
    /\ iterations = IterationBound
    /\ i = Len(debtors) /\ j = Len(creditors)

\* The sum of the first n records that name id as the receiving creditor.
RECURSIVE ReceivedBy(_, _)
ReceivedBy(id, n) ==
    IF n = 0 THEN 0
    ELSE (IF emittedIds[n].creditor = id THEN newSettlements[n].amount ELSE 0)
         + ReceivedBy(id, n - 1)

\* C24: no over-settlement.  From the partition on, the remaining balance of
\* every debtor entry and of every creditor entry is at least 0; the records
\* a debtor pays never add up to more than the debt it accrued, and the
\* records a creditor receives never to more than the credit it accrued.
C24_NoOverSettlement ==
    Partitioned =>
        /\ \A n \in 1..Len(debtors) :
              /\ debtors[n].balance >= 0
              /\ PaidBy(debtors[n].id, Len(emittedIds)) <= OriginalDebt(debtors[n].id)
        /\ \A n \in 1..Len(creditors) :
              /\ creditors[n].balance >= 0
              /\ ReceivedBy(creditors[n].id, Len(emittedIds)) <= BalanceOf(creditors[n].id)

\* A debtor has paid all it accrued in two records, to creditors that each
\* received all they accrued.
C24_Witness ==
    /\ pc = "done"
    /\ ValidInput
    /\ \E n \in 1..Len(debtors) :
          /\ Cardinality({m \in 1..Len(emittedIds) : emittedIds[m].debtor = debtors[n].id}) = 2
          /\ PaidBy(debtors[n].id, Len(emittedIds)) = OriginalDebt(debtors[n].id)
    /\ \A n \in 1..Len(creditors) :
          ReceivedBy(creditors[n].id, Len(emittedIds)) = BalanceOf(creditors[n].id)

\* C25: each pair of a debtor entry and a creditor entry is matched at most
\* once: no two records of the list under construction, and none of the
\* list returned, come from the same debtor entry and the same creditor
\* entry.
C25_PairMatchedOnce ==
    \A m, n \in 1..Len(emittedIds) : emittedIds[m] = emittedIds[n] => m = n

\* The loop has ended with more than one record, and one debtor entry pays
\* two of them.
C25_Witness ==
    /\ pc = "done"
    /\ Len(settlements) > 1
    /\ Len(emittedIds) = Len(settlements)
    /\ \E m, n \in 1..Len(emittedIds) :
          /\ m # n
          /\ emittedIds[m].debtor = emittedIds[n].debtor

(***************************************************************************)
(* One call with two users, a and b, and expenses of 100.00 that may name   *)
(* the identifier c, which is no user of the list; the run is synchronous,  *)
(* so a step that can be taken is taken.                                    *)
(***************************************************************************)
AbsentExpenses ==
    [amount : {Hundred}, paidById : IDs, participantIds : ParticipantLists \ {<<>>}]

InitAbsent ==
    /\ users \in {us \in UserLists : Len(us) = 2}
    /\ expenses \in UNION {[1..n -> AbsentExpenses] : n \in 0..MaxExpenses}
    /\ SummaryAtRest
    /\ LocalAtRest
    /\ BackendAtRest

SpecAbsent == InitAbsent /\ [][Next]_vars

FairAbsent == SpecAbsent /\ WF_vars(Next)

\* The identifiers the expenses name that no user of the list has.
AbsentIds ==
    {id \in IDs \ UserIds(users) :
        \E n \in 1..Len(expenses) :
            \/ expenses[n].paidById = id
            \/ \E m \in 1..Len(expenses[n].participantIds) : expenses[n].participantIds[m] = id}

\* C26: unknown identifiers are absorbed.  With two users or more and an
\* expense that names an identifier absent from users, the computation still
\* returns; once the expenses are accrued the absent identifier has a balance
\* entry of its own, with what it paid less its shares, as a user would have;
\* and every record it pays or receives carries the name 'Unknown'.
C26_UnknownAbsorbed ==
    /\ (Len(users) >= 2 /\ AbsentIds # {}) ~> pc = "done"
    /\ [](Len(users) >= 2 /\ AccrualDone =>
            \A id \in AbsentIds : MapHas(balances, id) /\ BalanceOf(id) = Net(id))
    /\ [](Len(users) >= 2 =>
            \A n \in 1..Len(emittedIds) :
                /\ emittedIds[n].debtor \in AbsentIds => newSettlements[n].from = "Unknown"
                /\ emittedIds[n].creditor \in AbsentIds => newSettlements[n].to = "Unknown")

\* The call has returned two records, one paid by the absent identifier and
\* one received by it, both under the name 'Unknown'.
C26_Witness ==
    /\ pc = "done"
    /\ Len(settlements) = 2
    /\ Len(emittedIds) = 2
    /\ \E n \in 1..2 : emittedIds[n].debtor \in AbsentIds /\ settlements[n].from = "Unknown"

\* C27: handleDeleteUser leaves users as it is while the expense list is not
\* empty, and with an empty expense list it removes the user with the given
\* identifier and no other.  Over the steps of the local-storage App: with
\* expenses stored no user leaves the list; a refusal (the alert) changes
\* neither list; and a step that shortens users happens with no expense
\* stored and takes out exactly one user, the others staying in their order.
C27_DeleteUserFrame ==
    [][/\ Len(expenses) > 0
          => Len(users') >= Len(users) /\ SubSeq(users', 1, Len(users)) = users
       /\ alert' # alert
          => Len(expenses) > 0 /\ users' = users /\ expenses' = expenses
       /\ Len(users') < Len(users)
          => /\ expenses = <<>> /\ expenses' = <<>>
             /\ Len(users') = Len(users) - 1
             /\ \E id \in UserIds(users) :
                   users' = SelectSeq(users, LAMBDA user : user.id # id)]_vars

\* A user has been deleted with no expense stored, and a later deletion has
\* been refused with an expense stored.
C27_Witness ==
    /\ alert = NoDeleteMessage
    /\ Len(expenses) > 0
    /\ Len(users) < now

(***************************************************************************)
(* The backend-synced App (App.tsx).  A request in flight is a record with  *)
(* the handler that awaits it and the group identifier that handler holds  *)
(* in its closure; the continuation of the handler runs when the response   *)
(* comes, whatever has happened in between.  The server answers a request   *)
(* with data, with an error, or with 401.  currentUser is set and cleared   *)
(* together with token (lines 214-215, 228-229) and has no cell of its own  *)
(* here.  A sign-in with a pending invite code is outside the model, and   *)
(* of the requests of one handler for one group a single one is kept in    *)
(* flight: a second one started meanwhile is answered with the first.      *)
(***************************************************************************)
GroupIds == {"g1", "g2"}

\* The answers of GET /groups: the groups of the user, as the server has them.
GroupLists == {<<>>, <<"g1">>, <<"g1", "g2">>}

Outcomes == {"ok", "error", "401"}

InitBackend ==
    /\ users = <<>>
    /\ expenses = <<>>
    /\ SummaryAtRest
    /\ LocalAtRest
    /\ BackendAtRest

Request(handler, id) == [handler |-> handler, id |-> id]

\* setGroups of loadGroupData, lines 146-152: the group replaces the entry of
\* its identifier or goes to the end.
WithGroup(gs, id) ==
    IF \E n \in 1..Len(gs) : gs[n] = id THEN gs ELSE Append(gs, id)

\* handleAuthSuccess, lines 224-241, without an invite code: the token is
\* stored and the hash cleared; the effect of lines 357-383 runs again for
\* the new token and its syncRoute, reading no group in the hash, clears
\* groupId and calls loadUserGroups (lines 82-85).
handleAuthSuccess ==
    /\ token = Null
    /\ token' = "token"
    /\ hash' = Null
    /\ groupId' = Null
    /\ isSyncing' = TRUE
    /\ requests' = requests \cup {Request("loadUserGroups", Null)}
    /\ UNCHANGED <<groups, users, expenses, summaryVars, localVars>>

\* A hashchange event while signed in (handleSelectGroup, handleGoBack, the
\* browser's back button): syncRoute, lines 358-369, calls loadGroupData for
\* the group of the hash (lines 110-112), or clears groupId and calls
\* loadUserGroups.
syncRoute ==
    /\ token # Null
    /\ \E gid \in (GroupIds \cup {Null}) \ {hash} :
          /\ hash' = gid
          /\ IF gid # Null
             THEN /\ requests' = requests \cup {Request("loadGroupData", gid)}
                  /\ UNCHANGED groupId
             ELSE /\ requests' = requests \cup {Request("loadUserGroups", Null)}
                  /\ groupId' = Null
    /\ isSyncing' = TRUE
    /\ UNCHANGED <<token, groups, users, expenses, summaryVars, localVars>>

\* handleLogout, lines 213-222.  The hash is cleared; the syncRoute that
\* follows finds no token and no group and does nothing.  Requests in flight
\* are not cancelled.
handleLogout ==
    /\ token # Null
    /\ token' = Null
    /\ groupId' = Null
    /\ groups' = <<>>
    /\ hash' = Null
    /\ UNCHANGED <<isSyncing, requests, users, expenses, summaryVars, localVars>>

\* handleAddExpense up to its await, lines 270-292 (handleDeleteExpense,
\* handleAddUser and handleDeleteUser have the same shape).
handleAddExpense ==
    /\ groupId # Null
    /\ token # Null
    /\ isSyncing' = TRUE
    /\ requests' = requests \cup {Request("handleAddExpense", groupId)}
    /\ UNCHANGED <<token, groups, groupId, hash, users, expenses, summaryVars, localVars>>

\* loadUserGroups after its await, lines 86-107; a 401 runs handleLogout
\* inside apiFetch (lines 50-53) before the catch.
loadUserGroupsResponse ==
    /\ Request("loadUserGroups", Null) \in requests
    /\ \E outcome \in Outcomes, data \in GroupLists :
          CASE outcome = "ok" ->
                  /\ groups' = data
                  /\ UNCHANGED <<token, groupId, hash>>
            [] outcome = "error" ->
                  UNCHANGED <<token, groups, groupId, hash>>
            [] outcome = "401" ->
                  /\ token' = Null
                  /\ groupId' = Null
                  /\ groups' = <<>>
                  /\ hash' = Null
    /\ isSyncing' = FALSE
    /\ requests' = requests \ {Request("loadUserGroups", Null)}
    /\ UNCHANGED <<users, expenses, summaryVars, localVars>>

\* loadGroupData after its await, lines 113-158.  With data it stores the
\* group and selects it.  On an error it clears groupId and the hash; when
\* that changes the hash, the hashchange event runs syncRoute, which for a
\* signed-in user calls loadUserGroups.  A 401 runs handleLogout first.
loadGroupDataResponse ==
    \E id \in GroupIds :
        /\ Request("loadGroupData", id) \in requests
        /\ \E outcome \in Outcomes :
              CASE outcome = "ok" ->
                      /\ groups' = WithGroup(groups, id)
                      /\ groupId' = id
                      /\ isSyncing' = FALSE
                      /\ requests' = requests \ {Request("loadGroupData", id)}
                      /\ UNCHANGED <<token, hash>>
                [] outcome = "error" ->
                      /\ groupId' = Null
                      /\ hash' = Null
                      /\ IF hash # Null /\ token # Null
                         THEN /\ isSyncing' = TRUE
                              /\ requests' = (requests \ {Request("loadGroupData", id)})
                                               \cup {Request("loadUserGroups", Null)}
                         ELSE /\ isSyncing' = FALSE
                              /\ requests' = requests \ {Request("loadGroupData", id)}
                      /\ UNCHANGED <<token, groups>>
                [] outcome = "401" ->
                      /\ token' = Null
                      /\ groupId' = Null
                      /\ groups' = <<>>
                      /\ hash' = Null
                      /\ isSyncing' = FALSE
                      /\ requests' = requests \ {Request("loadGroupData", id)}
        /\ UNCHANGED <<users, expenses, summaryVars, localVars>>

\* handleAddExpense after its await, lines 293-298: with the expense saved
\* it calls loadGroupData for the group of its closure, which sets isSyncing
\* and starts its requests (lines 110-118), and then its own finally clears
\* isSyncing.
handleAddExpenseResponse ==
    \E id \in GroupIds :
        /\ Request("handleAddExpense", id) \in requests
        /\ \E outcome \in Outcomes :
              CASE outcome = "ok" ->
                      /\ requests' = (requests \ {Request("handleAddExpense", id)})
                                       \cup {Request("loadGroupData", id)}
                      /\ UNCHANGED <<token, groups, groupId, hash>>
                [] outcome = "error" ->
                      /\ requests' = requests \ {Request("handleAddExpense", id)}
                      /\ UNCHANGED <<token, groups, groupId, hash>>
                [] outcome = "401" ->
                      /\ requests' = requests \ {Request("handleAddExpense", id)}
                      /\ token' = Null
                      /\ groupId' = Null
                      /\ groups' = <<>>
                      /\ hash' = Null
        /\ isSyncing' = FALSE
        /\ UNCHANGED <<users, expenses, summaryVars, localVars>>

NextBackend ==
    \/ handleAuthSuccess
    \/ syncRoute
    \/ handleLogout
    \/ handleAddExpense
    \/ loadUserGroupsResponse
    \/ loadGroupDataResponse
    \/ handleAddExpenseResponse

SpecBackend == InitBackend /\ [][NextBackend]_vars

\* C28: route and selected group agree once requests settle: in every state
\* with no request in flight, groupId is the group of the URL hash, and null
\* when the hash names no group.
C28_RouteAgreesWhenSettled == requests = {} => groupId = hash

\* C29: the syncing indicator covers the requests in flight: isSyncing is
\* true in every state in which a request started by a handler has not
\* completed.
C29_SyncingCoversRequests == requests # {} => isSyncing

\* C30: no data after logout: while no token is stored, from handleLogout to
\* the next sign-in, groups is empty and groupId is null, whatever responses
\* come in.
C30_NoDataAfterLogout == token = Null => groups = <<>> /\ groupId = Null
====
